---- MODULE Spec2Model ----
(***************************************************************************)
(* Model of canvasLogic.js: a WebGL line-strip canvas with five input      *)
(* handlers and a requestAnimationFrame-driven redraw loop.                *)
(*                                                                         *)
(* Strings are sequences of one-character strings, so that split, trim,    *)
(* parseFloat and parseInt are computed character by character.  The input *)
(* alphabet has digits, ',', '-', ' ', '.' and letters; no input holds an  *)
(* exponent, so every parsed coordinate is an integer.                     *)
(*                                                                         *)
(* Spec and SpecAnim start after the script has run to its end on a page   *)
(* that has a WebGL context, every control and working shaders.            *)
(* SpecStartup starts from every page of Envs, shader failures and missing *)
(* elements included, and adds the window resize listener.                 *)
(***************************************************************************)
EXTENDS Integers, Sequences, FiniteSets, TLC

VARIABLES
    points,      \* let points: sequence of <<x, y>>
    lineWidth,   \* let lineWidth: a parsed number (may be NaN)
    canvasW,     \* canvas.width
    canvasH,     \* canvas.height
    runs,        \* one record per call of drawSceneWithAnimation (its closure)
    rafQueue,    \* runs whose animate callback is scheduled for the next frame
    frameBatch,  \* callbacks of the frame being run that have not fired yet
    drawn,       \* what the latest drawScene call submitted to the GPU
    lastEvent,   \* history: the handler that ran last and what it did
    boot,        \* what the page offered the script and how far the script got
    innerWidth,  \* window.innerWidth
    flexDirection \* controls.style.flexDirection

\* the variables no canvas handler and no animation callback writes
page == <<boot, innerWidth, flexDirection>>

vars == <<points, lineWidth, canvasW, canvasH, runs, rafQueue, frameBatch,
          drawn, lastEvent, boot, innerWidth, flexDirection>>

(***************************************************************************)
(* Bounds of the model.                                                    *)
(***************************************************************************)
\* points.length is capped at MaxPoints under Spec, which draws the handlers'
\* inputs from the full input sets, and at MaxAnimPoints under SpecAnim, which
\* draws them from the smaller Anim* sets and so affords one more point
MaxPoints == 3

MaxAnimPoints == 4

(***************************************************************************)
(* Program constants.                                                      *)
(***************************************************************************)
MinCanvasSize == 400

LayoutThreshold == 1300

InitPoints == << <<0, 0>>, <<50, 50>> >>

(***************************************************************************)
(* Numbers: a JavaScript number is either NaN or a value.                  *)
(***************************************************************************)
NaN == [nan |-> TRUE, val |-> 0]

Num(v) == [nan |-> FALSE, val |-> v]

isNaN(n) == n.nan

(***************************************************************************)
(* String operations.                                                      *)
(***************************************************************************)
Digits == <<"0", "1", "2", "3", "4", "5", "6", "7", "8", "9">>

IsDigit(c) == \E d \in 1..10 : Digits[d] = c

DigitVal(c) == (CHOOSE d \in 1..10 : Digits[d] = c) - 1

IsSpace(c) == c = " "

\* String.prototype.split(','): the pieces between the commas
RECURSIVE split(_)
split(s) ==
    IF \A k \in 1..Len(s) : s[k] # ","
    THEN <<s>>
    ELSE LET k == CHOOSE k \in 1..Len(s) :
                      s[k] = "," /\ \A j \in 1..(k - 1) : s[j] # ","
         IN  <<SubSeq(s, 1, k - 1)>> \o split(SubSeq(s, k + 1, Len(s)))

RECURSIVE TrimStart(_)
TrimStart(s) ==
    IF s # <<>> /\ IsSpace(Head(s)) THEN TrimStart(Tail(s)) ELSE s

RECURSIVE TrimEnd(_)
TrimEnd(s) ==
    IF s # <<>> /\ IsSpace(s[Len(s)])
    THEN TrimEnd(SubSeq(s, 1, Len(s) - 1))
    ELSE s

\* String.prototype.trim()
trim(s) == TrimEnd(TrimStart(s))

\* number of leading decimal digits of s
RECURSIVE DigitsPrefixLen(_)
DigitsPrefixLen(s) ==
    IF s # <<>> /\ IsDigit(Head(s)) THEN 1 + DigitsPrefixLen(Tail(s)) ELSE 0

\* value of a sequence of decimal digits
RECURSIVE DecimalValue(_)
DecimalValue(ds) ==
    IF ds = <<>>
    THEN 0
    ELSE 10 * DecimalValue(SubSeq(ds, 1, Len(ds) - 1)) + DigitVal(ds[Len(ds)])

\* The number a string starts with: leading white space is skipped, then an
\* optional sign and the longest run of digits are read; whatever follows is
\* ignored.  NaN when no digit is found.
ParsePrefix(s) ==
    LET t    == TrimStart(s)
        sgn  == t # <<>> /\ Head(t) \in {"-", "+"}
        u    == IF sgn THEN Tail(t) ELSE t
        n    == DigitsPrefixLen(u)
        v    == DecimalValue(SubSeq(u, 1, n))
    IN  IF n = 0 THEN NaN
        ELSE IF sgn /\ Head(t) = "-" THEN Num(0 - v) ELSE Num(v)

\* parseFloat on strings without '.', exponent or "Infinity"
parseFloat(s) == ParsePrefix(s)

\* parseInt (radix 10): stops at the first non-digit, a '.' included
parseInt(s) == ParsePrefix(s)


(***************************************************************************)
(* Inputs the environment supplies.                                        *)
(***************************************************************************)
\* coordinateInput.value at the time of an add-coordinate click
CoordInputs ==
    { <<"1","0","0",",","1","0","0">>,        \* "100,100"
      <<" ","3","0","0",","," ","1","5","0"," ">>,  \* " 300, 150 "
      <<"3","0","1",",","5">>,                \* "301,5"
      <<"-","1",",","5">>,                    \* "-1,5"
      <<"a","b","c",",","5">>,                \* "abc,5"
      <<"5","a",",","5">>,                    \* "5a,5"
      <<"5">>,                                \* "5"
      <<"1",",","2",",","3">> }               \* "1,2,3"

\* canvasWidthInput.value and canvasHeightInput.value at a resize click
ResizeInputs ==
    { << <<"3","0","0">>, <<"5","0","0">> >>,          \* 300 x 500
      << <<"5","0","0">>, <<"3","9","9">> >>,          \* 500 x 399
      << <<"4","0","0">>, <<"4","0","0",".","9">> >>,  \* 400 x 400.9
      << <<>>, <<"6","0","0">> >> }                    \* "" x 600

\* e.target.value of the line-width input
LineWidthInputs == { <<"1">>, <<"3">> }

\* e.clientX - rect.left, e.clientY - rect.top of a click event
ClickPositions == { <<120, 40>>, <<-5, 999>> }

\* the results of the two Math.random() calls of one click, in halves:
\* r stands for r/2, so 0 <= r/2 < 1
RandomHalves == { <<0, 1>>, <<1, 0>> }

\* canvas.width and canvas.height when the script starts: those of a canvas
\* element that sets neither attribute
InitSize == <<300, 150>>

\* the inputs of SpecAnim
AnimCoordInputs ==
    { <<"1","0","0",",","1","0","0">>,        \* "100,100"
      <<"a","b","c",",","5">> }               \* "abc,5"

AnimResizeInputs == { << <<"8","0","0">>, <<"6","0","0">> >> }

AnimLineWidthInputs == { <<"3">> }

AnimClickPositions == { <<120, 40>> }

AnimRandomHalves == { <<1, 1>> }

\* window.innerWidth at startup and at a window resize
InnerWidths == { LayoutThreshold - 1, LayoutThreshold, LayoutThreshold + 1 }

\* What the page and the WebGL implementation offer the script:
\*   gl        the canvas exists and getContext('webgl') returns a context
\*   controls  the seven other required elements exist
\*   vs, fs    the vertex / fragment shader compiles (COMPILE_STATUS)
\*   link      the program links when both shaders are attached (LINK_STATUS)
\*   strict    the WebGL binding throws a TypeError when null is passed for a
\*             WebGLShader or WebGLProgram argument (attachShader,
\*             getAttribLocation); otherwise it records a GL error and goes on
NormalEnv ==
    [gl |-> TRUE, controls |-> TRUE, vs |-> TRUE, fs |-> TRUE, link |-> TRUE,
     strict |-> TRUE]

Envs ==
    { NormalEnv,
      [NormalEnv EXCEPT !.gl = FALSE],
      [NormalEnv EXCEPT !.controls = FALSE],
      [NormalEnv EXCEPT !.vs = FALSE],
      [NormalEnv EXCEPT !.vs = FALSE, !.strict = FALSE],
      [NormalEnv EXCEPT !.fs = FALSE],
      [NormalEnv EXCEPT !.link = FALSE],
      [NormalEnv EXCEPT !.link = FALSE, !.strict = FALSE] }

(***************************************************************************)
(* Rendering.                                                              *)
(***************************************************************************)
\* Array.prototype.flat() of a list of pairs
RECURSIVE flat(_)
flat(ps) == IF ps = <<>> THEN <<>> ELSE Head(ps) \o flat(Tail(ps))

\* mutant: drawArrays(gl.LINE_STRIP, 0, points.length - 1)
drawSceneShort(ps, w, h, lw) ==
    LET positions == flat(ps)
    IN  [ verts |-> [k \in 1..(Len(ps) - 1) |->
                        <<positions[2 * k - 1], positions[2 * k]>>],
          res   |-> <<w, h>>,
          lw    |-> lw ]

\* drawScene: the vertices drawArrays(LINE_STRIP, 0, points.length) reads
\* from the uploaded buffer two floats at a time, with the two uniforms
drawScene(ps, w, h, lw) ==
    LET positions == flat(ps)
    IN  [ verts |-> [k \in 1..Len(ps) |->
                        <<positions[2 * k - 1], positions[2 * k]>>],
          res   |-> <<w, h>>,
          lw    |-> lw ]

(***************************************************************************)
(* The animation closure of drawSceneWithAnimation.                        *)
(*   i      the counter                                                    *)
(*   draws  history: drawScene calls this run has made                     *)
(*   startN history: points.length when the run started                    *)
(*   endN   history: points.length when the run stopped (0 while running)  *)
(*   grew   history: a point was pushed while the run was in flight        *)
(*   alone  history: no other run was in flight when the run started       *)
(***************************************************************************)
\* mutant: the counter starts at 1
NewRunFromOne(n, inflight) ==
    [i |-> 1, draws |-> 0, startN |-> n, endN |-> 0, grew |-> FALSE,
     alone |-> ~inflight]

NewRun(n, inflight) ==
    [i |-> 0, draws |-> 0, startN |-> n, endN |-> 0, grew |-> FALSE,
     alone |-> ~inflight]

\* mutant: if (i < points.length)
ShouldDrawStrict(i, n) == i < n

\* the test of animate: if (i <= points.length)
ShouldDraw(i, n) == i <= n

\* mutant: i++ is missing (the history counter stops at startN + 2)
AnimateBodyNoIncrement(run) ==
    [run EXCEPT !.draws = IF @ > run.startN + 1 THEN @ ELSE @ + 1]

\* the body of animate when the test passes, on the closure: drawScene(); i++
AnimateBody(run) == [run EXCEPT !.i = @ + 1, !.draws = @ + 1]

InFlight(r) ==
    \/ \E k \in 1..Len(rafQueue) : rafQueue[k] = r
    \/ \E k \in 1..Len(frameBatch) : frameBatch[k] = r

Finished(r) == r \in 1..Len(runs) /\ ~InFlight(r)

\* mutant: points = [p]
pushReset(ps, p) == <<p>>

\* mutant: points.unshift(p)
pushFront(ps, p) == <<p>> \o ps

\* points.push(p)
push(ps, p) == Append(ps, p)

\* mutant: x < canvas.width && y < canvas.height
InBoundsStrict(x, y, w, h) ==
    /\ ~isNaN(x) /\ ~isNaN(y)
    /\ x.val >= 0 /\ y.val >= 0
    /\ x.val < w /\ y.val < h

\* the bounds test of the add-coordinate handler
InBounds(x, y, w, h) ==
    /\ ~isNaN(x) /\ ~isNaN(y)
    /\ x.val >= 0 /\ y.val >= 0
    /\ x.val <= w /\ y.val <= h

\* mutant: newWidth >= 400 || newHeight >= 400
SizeOkEither(nw, nh) ==
    \/ ~isNaN(nw) /\ nw.val >= MinCanvasSize
    \/ ~isNaN(nh) /\ nh.val >= MinCanvasSize

\* mutant: newWidth > 400 && newHeight > 400
SizeOkStrict(nw, nh) ==
    /\ ~isNaN(nw) /\ nw.val > MinCanvasSize
    /\ ~isNaN(nh) /\ nh.val > MinCanvasSize

\* the test of the resize handler; a comparison with NaN is false
SizeOk(nw, nh) ==
    /\ ~isNaN(nw) /\ nw.val >= MinCanvasSize
    /\ ~isNaN(nh) /\ nh.val >= MinCanvasSize

(***************************************************************************)
(* The top-level script.                                                   *)
(***************************************************************************)
AlertNoWebGL ==
    "WebGL not supported by your browser. Please try another browser."
AlertMissing ==
    "One or more required DOM elements are missing. Please check your HTML."

\* createShader: the shader, or null when it does not compile
createShader(compiles) == IF compiles THEN "shader" ELSE "null"

\* createProgram: the program, null when it does not link, or "throw" when
\* attachShader is handed a null shader by a binding that rejects it
createProgram(vertexShader, fragmentShader, links, strict) ==
    IF vertexShader = "null" \/ fragmentShader = "null"
    THEN IF strict THEN "throw" ELSE "null"
    ELSE IF links THEN "program" ELSE "null"

\* drawScene with this program throws at getAttribLocation(program, ...)
ProgramThrows(program, strict) == program = "null" /\ strict

\* how far the script gets before it ends or throws
\*   alert     the alert shown, if any
\*   error     an error left the script uncaught
\*   started   lines 25-28 ran: points and lineWidth exist
\*   compiled  createShader was called
\*   program   the value of the program constant ("none": never assigned)
\*   handlers  the listeners of lines 54-103 are registered
\*   drew      the drawScene() of line 173 issued its draw call
\*   layout    lines 176-191 ran: the resize listener is registered and the
\*             flex direction was set once
Stopped(env, alert) ==
    [env |-> env, alert |-> alert, error |-> TRUE, started |-> FALSE,
     compiled |-> FALSE, program |-> "none", handlers |-> FALSE,
     drew |-> FALSE, layout |-> FALSE]

\* mutant: the throw after the alert is missing for the required elements
StartupNoThrow(env) ==
    IF ~env.gl
    THEN Stopped(env, AlertNoWebGL)
    ELSE [env |-> env,
          alert |-> IF env.controls THEN "none" ELSE AlertMissing,
          error |-> FALSE, started |-> TRUE, compiled |-> TRUE,
          program |-> "program", handlers |-> TRUE, drew |-> TRUE,
          layout |-> TRUE]

Startup(env) ==
    IF ~env.gl THEN Stopped(env, AlertNoWebGL)
    ELSE IF ~env.controls THEN Stopped(env, AlertMissing)
    ELSE
      LET vertexShader   == createShader(env.vs)
          fragmentShader == createShader(env.fs)
          program == createProgram(vertexShader, fragmentShader, env.link,
                                   env.strict)
      IN  IF program = "throw"
          THEN [env |-> env, alert |-> "none", error |-> TRUE,
                started |-> TRUE, compiled |-> TRUE, program |-> "none",
                handlers |-> FALSE, drew |-> FALSE, layout |-> FALSE]
          ELSE IF ProgramThrows(program, env.strict)
          THEN [env |-> env, alert |-> "none", error |-> TRUE,
                started |-> TRUE, compiled |-> TRUE, program |-> program,
                handlers |-> TRUE, drew |-> FALSE, layout |-> FALSE]
          ELSE [env |-> env, alert |-> "none", error |-> FALSE,
                started |-> TRUE, compiled |-> TRUE, program |-> program,
                handlers |-> TRUE, drew |-> TRUE, layout |-> TRUE]

\* every drawScene call of this session throws before its draw call
DrawFails == ProgramThrows(boot.program, boot.env.strict)

\* what a drawScene call leaves as the latest submitted frame
Submit(frame) == IF DrawFails THEN drawn ELSE frame

\* no frame was ever submitted
NoFrame == [verts |-> <<>>, res |-> <<0, 0>>, lw |-> NaN]

\* mutant: column up to and including the threshold
FlexDirectionUpTo(w) == IF w <= LayoutThreshold THEN "column" ELSE "row"

\* the flex direction lines 178-182 and 187-191 choose
FlexDirectionFor(w) == IF w < LayoutThreshold THEN "column" ELSE "row"

AlertNone == "none"
AlertBounds == "Please enter valid coordinates within the canvas bounds."
AlertFormat == "Please enter coordinates in the format: x,y"
AlertMinSize == "Canvas width and height must be at least 400 pixels."

\* history record of a handler invocation
Event(kind, input, input2, draws, alert) ==
    [ kind   |-> kind,       \* which handler ran
      input  |-> input,      \* the text it read
      input2 |-> input2,     \* the second text it read (resize height)
      pos    |-> <<>>,       \* the position of a canvas click
      before |-> points,     \* points when it started
      w      |-> canvasW,    \* canvas size when it started
      h      |-> canvasH,
      nruns  |-> Len(runs),  \* animation runs started before it
      draws  |-> IF DrawFails THEN 0 ELSE draws,
                             \* drawScene calls completed inside the handler
      error  |-> DrawFails /\ draws > 0,
                             \* drawScene threw and the error left the handler
      alert  |-> alert ]

\* the state the script leaves behind, for a page and a window width
InitWith(envs, widths) ==
    /\ \E env \in envs : boot = Startup(env)
    /\ IF boot.started
       THEN /\ points = InitPoints
            /\ \E s \in LineWidthInputs : lineWidth = parseFloat(s)
       ELSE /\ points = <<>>
            /\ lineWidth = NaN
    /\ canvasW = InitSize[1]
    /\ canvasH = InitSize[2]
    /\ runs = <<>>
    /\ rafQueue = <<>>
    /\ frameBatch = <<>>
    /\ drawn = IF boot.drew
               THEN drawScene(points, canvasW, canvasH, lineWidth)
               ELSE NoFrame
    /\ \E w \in widths : innerWidth = w
    /\ flexDirection = IF boot.layout THEN FlexDirectionFor(innerWidth)
                       ELSE "unset"
    /\ lastEvent = [ kind |-> "startup", input |-> <<>>, input2 |-> <<>>,
                     pos |-> <<>>, before |-> points, w |-> canvasW,
                     h |-> canvasH, nruns |-> 0,
                     draws |-> IF boot.drew THEN 1 ELSE 0,
                     error |-> boot.error, alert |-> boot.alert ]

\* the script ran to its end on a page that has everything
Init == InitWith({NormalEnv}, {LayoutThreshold})

\* mutant: drawScene() in place of drawSceneWithAnimation()
DrawOnly(ps) ==
    /\ drawn' = Submit(drawScene(ps, canvasW, canvasH, lineWidth))
    /\ UNCHANGED <<runs, rafQueue>>

\* mutant: a new run cancels the callbacks of the runs in flight
DrawSceneWithAnimationCancelling(ps) ==
    LET run == NewRun(Len(ps), rafQueue # <<>>)
    IN  /\ runs' = Append(runs, AnimateBody(run))
        /\ rafQueue' = <<Len(runs) + 1>>
        /\ drawn' = Submit(drawScene(ps, canvasW, canvasH, lineWidth))

\* mutant: requestAnimationFrame(animate) in place of the call animate()
DrawSceneWithAnimationDeferred(ps) ==
    LET run == NewRun(Len(ps), rafQueue # <<>>)
        old == [r \in 1..Len(runs) |->
                   IF InFlight(r) THEN [runs[r] EXCEPT !.grew = TRUE]
                   ELSE runs[r]]
    IN  /\ runs' = Append(old, run)
        /\ rafQueue' = Append(rafQueue, Len(runs) + 1)
        /\ UNCHANGED drawn

\* drawSceneWithAnimation(), called after points became ps: a new closure
\* with i = 0 whose animate runs once at once and schedules itself
DrawSceneWithAnimation(ps) ==
    LET run == NewRun(Len(ps), rafQueue # <<>>)
        old == [r \in 1..Len(runs) |->
                   IF InFlight(r) THEN [runs[r] EXCEPT !.grew = TRUE]
                   ELSE runs[r]]
    IN  IF ShouldDraw(run.i, Len(ps))
        THEN IF DrawFails
             THEN \* drawScene throws: no i++, no requestAnimationFrame
                  /\ runs' = Append(old, run)
                  /\ UNCHANGED <<rafQueue, drawn>>
             ELSE /\ runs' = Append(old, AnimateBody(run))
                  /\ rafQueue' = Append(rafQueue, Len(runs) + 1)
                  /\ drawn' = drawScene(ps, canvasW, canvasH, lineWidth)
        ELSE /\ runs' = Append(old, [run EXCEPT !.endN = Len(ps)])
             /\ UNCHANGED <<rafQueue, drawn>>

\* mutant: the listener stores the value and does not redraw
LineWidthInputNoDraw(s) ==
    /\ frameBatch = <<>>
    /\ lineWidth' = parseFloat(s)
    /\ lastEvent' = Event("lineWidth", s, <<>>, 0, AlertNone)
    /\ UNCHANGED <<points, canvasW, canvasH, runs, rafQueue, frameBatch,
                   drawn>>
    /\ UNCHANGED page

\* lineWidthInput 'input' listener
LineWidthInput(s) ==
    /\ frameBatch = <<>>
    /\ lineWidth' = parseFloat(s)
    /\ drawn' = Submit(drawScene(points, canvasW, canvasH, lineWidth'))
    /\ lastEvent' = Event("lineWidth", s, <<>>, 1, AlertNone)
    /\ UNCHANGED <<points, canvasW, canvasH, runs, rafQueue, frameBatch>>
    /\ UNCHANGED page

\* addSegmentButton 'click' listener
AddSegmentClick(rx, ry) ==
    /\ frameBatch = <<>>
    /\ LET newPoint == <<(rx * canvasW) \div 2, (ry * canvasH) \div 2>>
       IN  /\ points' = push(points, newPoint)
           /\ DrawSceneWithAnimation(points')
    /\ lastEvent' = Event("addSegment", <<>>, <<>>, 1, AlertNone)
    /\ UNCHANGED <<lineWidth, canvasW, canvasH, frameBatch>>
    /\ UNCHANGED page

\* addCoordinateButton 'click' listener
AddCoordinateClick(s) ==
    /\ frameBatch = <<>>
    /\ LET input == split(s)
       IN  IF Len(input) = 2
           THEN LET x == parseFloat(trim(input[1]))
                    y == parseFloat(trim(input[2]))
                IN  IF InBounds(x, y, canvasW, canvasH)
                    THEN /\ points' = push(points, <<x.val, y.val>>)
                         /\ DrawSceneWithAnimation(points')
                         /\ lastEvent' =
                                Event("addCoordinate", s, <<>>, 1, AlertNone)
                    ELSE /\ lastEvent' =
                                Event("addCoordinate", s, <<>>, 0, AlertBounds)
                         /\ UNCHANGED <<points, runs, rafQueue, drawn>>
           ELSE /\ lastEvent' = Event("addCoordinate", s, <<>>, 0, AlertFormat)
                /\ UNCHANGED <<points, runs, rafQueue, drawn>>
    /\ UNCHANGED <<lineWidth, canvasW, canvasH, frameBatch>>
    /\ UNCHANGED page

\* resizeCanvasButton 'click' listener
ResizeCanvasClick(ws, hs) ==
    /\ frameBatch = <<>>
    /\ LET newWidth  == parseInt(ws)
           newHeight == parseInt(hs)
       IN  IF SizeOk(newWidth, newHeight)
           THEN /\ canvasW' = newWidth.val
                /\ canvasH' = newHeight.val
                /\ drawn' = Submit(drawScene(points, canvasW', canvasH',
                                             lineWidth))
                /\ lastEvent' = Event("resize", ws, hs, 1, AlertNone)
           ELSE /\ lastEvent' = Event("resize", ws, hs, 0, AlertMinSize)
                /\ UNCHANGED <<canvasW, canvasH, drawn>>
    /\ UNCHANGED <<points, lineWidth, runs, rafQueue, frameBatch>>
    /\ UNCHANGED page

\* mutant: the click position is validated like a typed coordinate
CanvasClickValidated(x, y) ==
    /\ frameBatch = <<>>
    /\ IF InBounds(Num(x), Num(y), canvasW, canvasH)
       THEN /\ points' = push(points, <<x, y>>)
            /\ DrawSceneWithAnimation(points')
            /\ lastEvent' = [Event("click", <<>>, <<>>, 1, AlertNone)
                                EXCEPT !.pos = <<x, y>>]
       ELSE /\ lastEvent' = [Event("click", <<>>, <<>>, 0, AlertBounds)
                                EXCEPT !.pos = <<x, y>>]
            /\ UNCHANGED <<points, runs, rafQueue, drawn>>
    /\ UNCHANGED <<lineWidth, canvasW, canvasH, frameBatch>>
    /\ UNCHANGED page

\* canvas 'click' listener
CanvasClick(x, y) ==
    /\ frameBatch = <<>>
    /\ points' = push(points, <<x, y>>)
    /\ DrawSceneWithAnimation(points')
    /\ lastEvent' = [Event("click", <<>>, <<>>, 1, AlertNone)
                        EXCEPT !.pos = <<x, y>>]
    /\ UNCHANGED <<lineWidth, canvasW, canvasH, frameBatch>>
    /\ UNCHANGED page

\* a display refresh: the callbacks requested so far form the frame's batch;
\* callbacks requested while it runs wait for the next frame
BeginFrame ==
    /\ frameBatch = <<>>
    /\ rafQueue # <<>>
    /\ frameBatch' = rafQueue
    /\ rafQueue' = <<>>
    /\ lastEvent' = Event("frame", <<>>, <<>>, 0, AlertNone)
    /\ UNCHANGED <<points, lineWidth, canvasW, canvasH, runs, drawn>>
    /\ UNCHANGED page

\* mutant: a progressive reveal, each tick drawing the first i points
AnimateReveal ==
    /\ frameBatch # <<>>
    /\ LET r == Head(frameBatch)
       IN  IF ShouldDraw(runs[r].i, Len(points))
           THEN /\ runs' = [runs EXCEPT ![r] = AnimateBody(@)]
                /\ drawn' = drawScene(SubSeq(points, 1, runs[r].i), canvasW,
                                      canvasH, lineWidth)
                /\ rafQueue' = Append(rafQueue, r)
                /\ lastEvent' = Event("animate", <<>>, <<>>, 1, AlertNone)
           ELSE /\ runs' = [runs EXCEPT ![r].endN = Len(points)]
                /\ lastEvent' = Event("animate", <<>>, <<>>, 0, AlertNone)
                /\ UNCHANGED <<rafQueue, drawn>>
    /\ frameBatch' = Tail(frameBatch)
    /\ UNCHANGED <<points, lineWidth, canvasW, canvasH>>
    /\ UNCHANGED page

\* animate(), run as a requestAnimationFrame callback
Animate ==
    /\ frameBatch # <<>>
    /\ LET r == Head(frameBatch)
       IN  IF ShouldDraw(runs[r].i, Len(points))
           THEN /\ runs' = [runs EXCEPT ![r] = AnimateBody(@)]
                /\ drawn' = Submit(drawScene(points, canvasW, canvasH,
                                             lineWidth))
                /\ rafQueue' = Append(rafQueue, r)
                /\ lastEvent' = Event("animate", <<>>, <<>>, 1, AlertNone)
           ELSE /\ runs' = [runs EXCEPT ![r].endN = Len(points)]
                /\ lastEvent' = Event("animate", <<>>, <<>>, 0, AlertNone)
                /\ UNCHANGED <<rafQueue, drawn>>
    /\ frameBatch' = Tail(frameBatch)
    /\ UNCHANGED <<points, lineWidth, canvasW, canvasH>>
    /\ UNCHANGED page

\* window 'resize' listener, the window having taken width w
WindowResize(w) ==
    /\ frameBatch = <<>>
    /\ innerWidth' = w
    /\ flexDirection' = FlexDirectionFor(w)
    /\ lastEvent' = Event("windowResize", <<>>, <<>>, 0, AlertNone)
    /\ UNCHANGED <<points, lineWidth, canvasW, canvasH, runs, rafQueue,
                   frameBatch, drawn, boot>>

\* the handlers on the full input sets, points.length capped at MaxPoints
Next ==
    \/ \E v \in LineWidthInputs : LineWidthInput(v)
    \/ \E r \in RandomHalves :
          AddSegmentClick(r[1], r[2]) /\ Len(points') <= MaxPoints
    \/ \E c \in CoordInputs :
          AddCoordinateClick(c) /\ Len(points') <= MaxPoints
    \/ \E sz \in ResizeInputs : ResizeCanvasClick(sz[1], sz[2])
    \/ \E p \in ClickPositions :
          CanvasClick(p[1], p[2]) /\ Len(points') <= MaxPoints
    \/ BeginFrame
    \/ Animate

Spec == Init /\ [][Next]_vars

\* the handlers on the Anim* input sets, points.length capped at MaxAnimPoints
NextAnim ==
    \/ \E v \in AnimLineWidthInputs : LineWidthInput(v)
    \/ \E r \in AnimRandomHalves :
          AddSegmentClick(r[1], r[2]) /\ Len(points') <= MaxAnimPoints
    \/ \E c \in AnimCoordInputs :
          AddCoordinateClick(c) /\ Len(points') <= MaxAnimPoints
    \/ \E sz \in AnimResizeInputs : ResizeCanvasClick(sz[1], sz[2])
    \/ \E p \in AnimClickPositions :
          CanvasClick(p[1], p[2]) /\ Len(points') <= MaxAnimPoints
    \/ BeginFrame
    \/ Animate

SpecAnim == Init /\ [][NextAnim]_vars

\* The whole script on every page of Envs: a listener runs only if the script
\* got as far as registering it.  Inputs are the Anim* sets, points.length is
\* capped at MaxPoints.
InitStartup == InitWith(Envs, InnerWidths)

NextStartup ==
    \/ boot.handlers /\ \E v \in AnimLineWidthInputs : LineWidthInput(v)
    \/ boot.handlers /\ \E r \in AnimRandomHalves :
          AddSegmentClick(r[1], r[2]) /\ Len(points') <= MaxPoints
    \/ boot.handlers /\ \E c \in AnimCoordInputs :
          AddCoordinateClick(c) /\ Len(points') <= MaxPoints
    \/ boot.handlers /\ \E sz \in AnimResizeInputs :
          ResizeCanvasClick(sz[1], sz[2])
    \/ boot.handlers /\ \E p \in AnimClickPositions :
          CanvasClick(p[1], p[2]) /\ Len(points') <= MaxPoints
    \/ boot.layout /\ \E w \in InnerWidths : WindowResize(w)
    \/ BeginFrame
    \/ Animate

SpecStartup == InitStartup /\ [][NextStartup]_vars

\* SpecAnim with the display refreshing for as long as callbacks are pending:
\* a requested frame is eventually delivered and a delivered frame runs all
\* of its callbacks
SpecAnimFair == SpecAnim /\ WF_vars(BeginFrame) /\ WF_vars(Animate)

(***************************************************************************)
(* Vocabulary of the properties.                                           *)
(***************************************************************************)
IsPrefix(a, b) == Len(a) <= Len(b) /\ SubSeq(b, 1, Len(a)) = a

\* a string that is a decimal numeral and nothing else, white space around
\* it aside: an optional sign and one or more digits
IsNumeral(t) ==
    LET u    == trim(t)
        body == IF u # <<>> /\ Head(u) \in {"-", "+"} THEN Tail(u) ELSE u
    IN  body # <<>> /\ \A k \in 1..Len(body) : IsDigit(body[k])

NumeralValue(t) ==
    LET u == trim(t)
    IN  IF Head(u) = "-" THEN 0 - DecimalValue(Tail(u))
        ELSE IF Head(u) = "+" THEN DecimalValue(Tail(u))
        ELSE DecimalValue(u)

CommaCount(s) == Cardinality({k \in 1..Len(s) : s[k] = ","})

\* the text before the only comma of s, and the text after it
BeforeComma(s) ==
    SubSeq(s, 1, (CHOOSE k \in 1..Len(s) : s[k] = ",") - 1)

AfterComma(s) ==
    SubSeq(s, (CHOOSE k \in 1..Len(s) : s[k] = ",") + 1, Len(s))

\* "x,y" with two numerals, 0 <= x <= w and 0 <= y <= h
ValidCoordinate(s, w, h) ==
    /\ CommaCount(s) = 1
    /\ IsNumeral(BeforeComma(s))
    /\ IsNumeral(AfterComma(s))
    /\ NumeralValue(BeforeComma(s)) \in 0..w
    /\ NumeralValue(AfterComma(s)) \in 0..h

Text100x100 == <<"1","0","0",",","1","0","0">>

AddedPoint(e) ==
    e.kind \in {"click", "addSegment"} \/
    (e.kind = "addCoordinate" /\ e.alert = AlertNone)

(***************************************************************************)
(* Properties.                                                             *)
(***************************************************************************)
TypeOK ==
    /\ Len(points) \in (IF boot.started THEN 2..MaxAnimPoints ELSE {0})
    /\ Len(runs) <= MaxAnimPoints

\* C1 as stated: every animation run issues exactly N+1 draw calls, N being
\* the point count right after the addition that started it, whether or not
\* points are added while it is in flight.
C1_DrawCountFixedAtStart ==
    \A r \in 1..Len(runs) :
        Finished(r) => runs[r].draws = runs[r].startN + 1

\* C1 amended: a run that has ended issued exactly M+1 draw calls, M being
\* the point count when it ended; M = N when no point was added while it was
\* in flight and M > N otherwise.
C1_DrawCountFollowsPoints ==
    \A r \in 1..Len(runs) :
        Finished(r) =>
            /\ runs[r].draws = runs[r].endN + 1
            /\ runs[r].grew <=> runs[r].endN > runs[r].startN
            /\ ~runs[r].grew => runs[r].endN = runs[r].startN

\* a run has ended that saw a point added while it was in flight
C1_Witness ==
    \E r \in 1..Len(runs) :
        Finished(r) /\ runs[r].grew /\ runs[r].draws > runs[r].startN + 1

\* C2: a run started while no run is in flight, with no point added before
\* it ends, issues exactly N+1 draw calls; typing "100,100" into the initial
\* points gives [[0,0],[50,50],[100,100]] and a run of 4 draws.
C2_UndisturbedRunDrawsNPlusOne ==
    /\ \A r \in 1..Len(runs) :
          (Finished(r) /\ runs[r].alone /\ ~runs[r].grew) =>
              runs[r].draws = runs[r].startN + 1
    /\ (/\ lastEvent.kind = "addCoordinate"
        /\ lastEvent.input = Text100x100
        /\ lastEvent.before = InitPoints) =>
           /\ points = << <<0, 0>>, <<50, 50>>, <<100, 100>> >>
           /\ Len(runs) = 1
    /\ (/\ Len(points) = 3
        /\ points[3] = <<100, 100>>
        /\ Finished(1)) => runs[1].draws = 4

C2_Witness ==
    /\ points = << <<0, 0>>, <<50, 50>>, <<100, 100>> >>
    /\ Finished(1)
    /\ runs[1].alone /\ ~runs[1].grew
    /\ runs[1].draws = 4

\* C3: a typed "x,y" with two numerals inside [0,width] x [0,height] makes
\* the add-coordinate handler append <<x, y>> as the last point, the length
\* growing by exactly 1.
C3_ValidCoordinateAppended ==
    (/\ lastEvent.kind = "addCoordinate"
     /\ ValidCoordinate(lastEvent.input, lastEvent.w, lastEvent.h)) =>
        /\ points = Append(lastEvent.before,
                           << NumeralValue(BeforeComma(lastEvent.input)),
                              NumeralValue(AfterComma(lastEvent.input)) >>)
        /\ Len(points) = Len(lastEvent.before) + 1

\* a coordinate on the canvas's far corner has been typed and appended
C3_Witness ==
    /\ lastEvent.kind = "addCoordinate"
    /\ ValidCoordinate(lastEvent.input, lastEvent.w, lastEvent.h)
    /\ points[Len(points)] = <<lastEvent.w, lastEvent.h>>
    /\ Len(points) = Len(lastEvent.before) + 1

\* C4 as stated: a malformed typed coordinate (token count other than 2, a
\* component that is not a number, or a component out of range) leaves the
\* points unchanged and produces a validation message.
C4_MalformedCoordinateRejected ==
    (/\ lastEvent.kind = "addCoordinate"
     /\ ~ValidCoordinate(lastEvent.input, lastEvent.w, lastEvent.h)) =>
        /\ points = lastEvent.before
        /\ lastEvent.alert # AlertNone

\* C5: a resize whose parsed width or height is NaN or below 400 leaves the
\* canvas size unchanged, draws nothing and produces a validation message.
C5_SmallResizeRejected ==
    (/\ lastEvent.kind = "resize"
     /\ \/ isNaN(parseInt(lastEvent.input))
        \/ isNaN(parseInt(lastEvent.input2))
        \/ parseInt(lastEvent.input).val < MinCanvasSize
        \/ parseInt(lastEvent.input2).val < MinCanvasSize) =>
        /\ canvasW = lastEvent.w
        /\ canvasH = lastEvent.h
        /\ lastEvent.draws = 0
        /\ lastEvent.alert = AlertMinSize

\* a resize with an acceptable height and a width below 400 was rejected
C5_Witness ==
    /\ lastEvent.kind = "resize"
    /\ ~isNaN(parseInt(lastEvent.input))
    /\ parseInt(lastEvent.input).val < MinCanvasSize
    /\ parseInt(lastEvent.input2).val >= MinCanvasSize
    /\ lastEvent.alert = AlertMinSize
    /\ canvasW = lastEvent.w

\* C6: a resize whose parsed width and height are both >= 400 sets the canvas
\* to exactly those values and draws exactly once, with the new size, without
\* starting an animation run or changing the points.
C6_ResizeAccepted ==
    (/\ lastEvent.kind = "resize"
     /\ ~isNaN(parseInt(lastEvent.input))
     /\ ~isNaN(parseInt(lastEvent.input2))
     /\ parseInt(lastEvent.input).val >= MinCanvasSize
     /\ parseInt(lastEvent.input2).val >= MinCanvasSize) =>
        /\ canvasW = parseInt(lastEvent.input).val
        /\ canvasH = parseInt(lastEvent.input2).val
        /\ lastEvent.draws = 1
        /\ drawn.res = <<canvasW, canvasH>>
        /\ Len(runs) = lastEvent.nruns
        /\ points = lastEvent.before
        /\ lastEvent.alert = AlertNone

\* a resize to the minimum size was accepted and changed the canvas
C6_Witness ==
    /\ lastEvent.kind = "resize"
    /\ lastEvent.alert = AlertNone
    /\ canvasW = MinCanvasSize /\ canvasH = MinCanvasSize
    /\ lastEvent.w # canvasW
    /\ drawn.res = <<MinCanvasSize, MinCanvasSize>>

\* C7: the point sequence always holds at least 2 points.
C7_AtLeastTwoPoints == Len(points) >= 2

\* the points after handlers of every kind have run and a point was added
C7_Witness == lastEvent.kind = "animate" /\ Len(points) = 3

\* C8: the point sequence is append-only: every step leaves the earlier
\* sequence as a prefix of the later one and adds at most one point.
C8_AppendOnly ==
    [][IsPrefix(points, points') /\ Len(points') <= Len(points) + 1]_vars

\* a handler has just appended a point behind the earlier ones
C8_Witness ==
    /\ AddedPoint(lastEvent)
    /\ Len(points) = Len(lastEvent.before) + 1
    /\ IsPrefix(lastEvent.before, points)

\* C9: a canvas click, a random-segment click and an accepted typed coordinate
\* each start exactly one animation run; a rejected coordinate, a resize and a
\* line-width change start none.
C9_RunsStartWithPoints ==
    /\ lastEvent.kind \in {"click", "addSegment", "addCoordinate", "resize",
                           "lineWidth"} =>
          /\ AddedPoint(lastEvent) <=> Len(points) = Len(lastEvent.before) + 1
          /\ ~AddedPoint(lastEvent) <=> points = lastEvent.before
          /\ AddedPoint(lastEvent) =>
                /\ Len(runs) = lastEvent.nruns + 1
                /\ rafQueue # <<>> /\ rafQueue[Len(rafQueue)] = Len(runs)
          /\ ~AddedPoint(lastEvent) => Len(runs) = lastEvent.nruns
    /\ Len(runs) = Len(points) - Len(InitPoints)

\* a random-segment click has started a run and scheduled its callback
C9_Witness ==
    /\ lastEvent.kind = "addSegment"
    /\ Len(runs) = lastEvent.nruns + 1
    /\ rafQueue = <<Len(runs)>>
    /\ runs[Len(runs)].draws = 1

\* C10: a canvas click appends the click position whatever it is, positions
\* outside the canvas included: one more point, no validation message.
C10_ClickAppendsUnconditionally ==
    lastEvent.kind = "click" =>
        /\ points = Append(lastEvent.before, lastEvent.pos)
        /\ Len(points) = Len(lastEvent.before) + 1
        /\ lastEvent.alert = AlertNone

\* a click outside [0,width] x [0,height] has been appended
C10_Witness ==
    /\ lastEvent.kind = "click"
    /\ lastEvent.pos[1] < 0 /\ lastEvent.pos[2] > lastEvent.h
    /\ points[Len(points)] = lastEvent.pos

\* C11: a line-width change stores the entered value, draws exactly once with
\* it, starts no animation run and leaves the points and the canvas size alone.
C11_LineWidthChange ==
    lastEvent.kind = "lineWidth" =>
        /\ lineWidth = parseFloat(lastEvent.input)
        /\ IsNumeral(lastEvent.input) =>
              lineWidth = Num(NumeralValue(lastEvent.input))
        /\ lastEvent.draws = 1
        /\ drawn.lw = lineWidth
        /\ Len(runs) = lastEvent.nruns
        /\ points = lastEvent.before
        /\ canvasW = lastEvent.w /\ canvasH = lastEvent.h
        /\ lastEvent.alert = AlertNone

\* the line width has been changed to 3 and drawn with
C11_Witness ==
    /\ lastEvent.kind = "lineWidth"
    /\ lastEvent.input = <<"3">>
    /\ lineWidth = Num(3)
    /\ drawn.lw = Num(3)

\* what decides a frame
Scene == <<points, lineWidth, canvasW, canvasH>>

\* C12: a draw call changes neither the points, the line width nor the canvas
\* size, so consecutive draw calls with no input event in between submit the
\* same vertices, resolution and line width.
C12_DrawIdempotent ==
    [][(lastEvent'.kind \in {"frame", "animate"}) =>
          /\ Scene' = Scene
          /\ drawn' = drawn]_vars

\* two animation ticks in a row have drawn
C12_Witness ==
    /\ lastEvent.kind = "animate" /\ lastEvent.draws = 1
    /\ \E r \in 1..Len(runs) : runs[r].draws >= 3
    /\ Len(drawn.verts) = Len(points)

\* run r has a callback pending after the step
InFlightAfter(r) ==
    \/ \E k \in 1..Len(rafQueue') : rafQueue'[k] = r
    \/ \E k \in 1..Len(frameBatch') : frameBatch'[k] = r

\* C15: animation runs are independent: a step never lowers a run's counter,
\* a handler never takes a run in flight out of flight, a new run counts from
\* 0 (1 after its first draw), and a run only stops once its own counter is
\* above the point count.
C15_RunsIndependent ==
    /\ [][\A r \in 1..Len(runs) :
             /\ runs'[r].i >= runs[r].i
             /\ runs'[r].i <= runs[r].i + 1
             /\ (InFlight(r) /\ Len(runs') > Len(runs)) =>
                   (InFlightAfter(r) /\ runs'[r].i = runs[r].i)
             /\ (InFlight(r) /\ ~InFlightAfter(r)) =>
                   runs[r].i > Len(points)]_vars
    /\ [][Len(runs') > Len(runs) =>
             /\ Len(runs') = Len(runs) + 1
             /\ runs'[Len(runs')].i = 1
             /\ InFlightAfter(Len(runs'))]_vars

\* two runs are in flight at once, each with its own counter
C15_Witness ==
    /\ Len(runs) >= 2
    /\ InFlight(1) /\ InFlight(2)
    /\ runs[1].i = 3 /\ runs[2].i = 1
    /\ runs[1].draws = 3 /\ runs[2].draws = 1

\* C16: with display refreshes delivered fairly and finitely many points
\* added, every run eventually stops, with its counter above the point count
\* of that moment, and once stopped it has no callback pending ever again.
C16_RunsTerminate ==
    /\ \A r \in 1..(MaxAnimPoints - Len(InitPoints)) :
          (Len(runs) >= r) ~> Finished(r)
    /\ [](\A r \in 1..Len(runs) :
             Finished(r) => /\ runs[r].i = runs[r].endN + 1
                            /\ runs[r].endN >= runs[r].startN)
    /\ [][\A r \in 1..Len(runs) : Finished(r) => ~InFlightAfter(r)]_vars

\* every run that could be started has been started and has stopped
C16_Witness ==
    /\ Len(runs) = MaxAnimPoints - Len(InitPoints)
    /\ \A r \in 1..Len(runs) : Finished(r) /\ runs[r].i > Len(points)

\* C17: every draw call, a handler's or an animation tick's, submits the
\* points as they are at that moment, all of them in insertion order, with the
\* canvas size and line width of that moment.
C17_DrawSubmitsCurrentState ==
    lastEvent.draws >= 1 =>
        /\ Len(drawn.verts) = Len(points)
        /\ \A k \in 1..Len(points) : drawn.verts[k] = points[k]
        /\ drawn.res = <<canvasW, canvasH>>
        /\ drawn.lw = lineWidth

\* a tick of the first run has drawn a point that was pushed after the run
\* started
C17_Witness ==
    /\ lastEvent.kind = "animate" /\ lastEvent.draws = 1
    /\ Len(runs) >= 2 /\ runs[1].grew
    /\ rafQueue # <<>> /\ rafQueue[Len(rafQueue)] = 1
    /\ Len(drawn.verts) > runs[1].startN

\* number of callbacks of run r that are pending
Pending(r) ==
    Cardinality({k \in 1..Len(rafQueue) : rafQueue[k] = r}) +
    Cardinality({k \in 1..Len(frameBatch) : frameBatch[k] = r})

\* C19: the first draw of a run happens inside the handler that pushed the
\* point, with the new point among its vertices; every other draw of a run
\* happens in a refresh callback, one draw per callback and one callback per
\* run per frame.
C19_FirstDrawSynchronous ==
    /\ [](AddedPoint(lastEvent) =>
             /\ Len(runs) = lastEvent.nruns + 1
             /\ runs[Len(runs)].draws = 1
             /\ runs[Len(runs)].i = 1
             /\ lastEvent.draws = 1
             /\ Len(drawn.verts) = Len(lastEvent.before) + 1
             /\ drawn.verts = points)
    /\ [](\A r \in 1..Len(runs) : Pending(r) <= 1)
    /\ [][\A r \in 1..Len(runs) :
             runs'[r].draws # runs[r].draws =>
                 /\ frameBatch # <<>> /\ r = Head(frameBatch)
                 /\ frameBatch' = Tail(frameBatch)
                 /\ runs'[r].draws = runs[r].draws + 1
                 /\ lastEvent'.kind = "animate"]_vars

\* a handler has just pushed a point and drawn it, no frame having run since
C19_Witness ==
    /\ lastEvent.kind = "addSegment"
    /\ runs[Len(runs)].draws = 1
    /\ rafQueue[Len(rafQueue)] = Len(runs)
    /\ Len(drawn.verts) = Len(lastEvent.before) + 1

\* C20: every run's counter is between 0 and the point count plus 1 and equals
\* the number of draws the run has made, a run has at most one callback
\* pending, and a run that has stopped never draws or counts again, whatever
\* is pushed later.
C20_CounterInvariant ==
    /\ [](\A r \in 1..Len(runs) :
             /\ runs[r].i >= 0
             /\ runs[r].i <= Len(points) + 1
             /\ runs[r].i = runs[r].draws
             /\ Pending(r) \in {0, 1})
    /\ [][\A r \in 1..Len(runs) :
             Finished(r) => /\ runs'[r].i = runs[r].i
                            /\ runs'[r].draws = runs[r].draws]_vars

\* a run has stopped and points were pushed afterwards
C20_Witness ==
    \E r \in 1..Len(runs) :
        /\ Finished(r)
        /\ Len(points) > runs[r].endN
        /\ runs[r].i = runs[r].endN + 1
        /\ runs[r].i < Len(points) + 1

\* C13: when the rendering context or a required control is missing, startup
\* stops with an alert and does nothing else: no shader is compiled, no
\* listener is registered, nothing is drawn, and no later event changes
\* anything.
C13_StartupAborts ==
    (~boot.env.gl \/ ~boot.env.controls) =>
        /\ boot.alert = (IF boot.env.gl THEN AlertMissing ELSE AlertNoWebGL)
        /\ boot.error
        /\ ~boot.compiled
        /\ ~boot.handlers
        /\ ~boot.layout
        /\ ~boot.drew /\ drawn = NoFrame
        /\ lastEvent.kind = "startup"
        /\ points = <<>> /\ runs = <<>> /\ rafQueue = <<>>
        /\ flexDirection = "unset"

\* a page without one of the controls: the script has alerted and stopped
C13_Witness ==
    /\ boot.env.gl /\ ~boot.env.controls
    /\ boot.alert = AlertMissing
    /\ ~boot.handlers
    /\ drawn = NoFrame

\* C14: once the script has run to its end, and after every window resize, the
\* flex direction is 'column' exactly when the window is narrower than 1300 and
\* 'row' otherwise, 1300 included.
C14_LayoutFollowsWidth ==
    /\ ~boot.error => boot.layout
    /\ boot.layout =>
          /\ flexDirection = "column" <=> innerWidth < LayoutThreshold
          /\ flexDirection = "row" <=> innerWidth >= LayoutThreshold
    /\ lastEvent.kind = "windowResize" => boot.layout

\* the window has been resized to exactly 1300 from a narrower width
C14_Witness ==
    /\ lastEvent.kind = "windowResize"
    /\ innerWidth = LayoutThreshold
    /\ flexDirection = "row"

\* a shader did not compile or the program did not link
ShaderFailure ==
    /\ boot.env.gl /\ boot.env.controls
    /\ ~boot.env.vs \/ ~boot.env.fs \/ ~boot.env.link

\* C18 as stated: a shader compile failure or a program link failure is not
\* fatal: the script still runs to its end (listeners registered, first draw
\* issued), handlers keep changing the points and the configuration, draw
\* calls proceed, and no error leaves the script or a handler.
C18_ShaderFailureNotFatal ==
    ShaderFailure =>
        /\ ~boot.error
        /\ boot.handlers
        /\ boot.drew
        /\ ~lastEvent.error
        /\ lastEvent.kind \in {"lineWidth", "resize", "click", "addSegment"} =>
              lastEvent.draws = 1

====
